---------------------------- MODULE Spec2Model ----------------------------
(***************************************************************************)
(* Model of gitlab-shell's HTTP client construction (package client,       *)
(* httpclient.go) and of the SSH environment reader (package sshenv).      *)
(*                                                                         *)
(* Strings the code inspects character by character (URLs, the relative    *)
(* URL root, SSH_CONNECTION) are sequences of one-character strings.       *)
(* Filesystem paths are sequences of path components; the empty sequence   *)
(* is the empty path "".  A Go pointer or slice that may be nil is a       *)
(* sequence of length 0 (nil) or 1.  uint64/int64 values are sequences of  *)
(* eight base-256 limbs, least significant first, so that the 64-bit       *)
(* wrap-around of the code's arithmetic is kept.                           *)
(***************************************************************************)
EXTENDS Integers, Sequences, FiniteSets, TLC

VARIABLES
    pc,            \* "start", "client" (NewHTTPClientWithOpts returned), "env" (NewFromEnv returned)
    args,          \* the arguments NewHTTPClientWithOpts was called with
    systemPool,    \* outcome of x509.SystemCertPool on this platform: "ok" or "err"
    hcc,           \* the resolved httpClientCfg
    client,        \* returned *HTTPClient: <<>> is nil
    err,           \* returned error
    trace,         \* the library and helper calls made, in call order
    dialed,        \* the last call of the transport's DialContext: <<>> none yet
    environ,       \* the process environment NewFromEnv read
    sshEnv         \* what NewFromEnv produced: <<>> not called, else <<outcome>>

vars == <<pc, args, systemPool, hcc, client, err, trace, dialed, environ, sshEnv>>

---------------------------------------------------------------------------
(* Bounds of the model *)

\* longest option list passed to NewHTTPClientWithOpts
MaxOpts == 2

---------------------------------------------------------------------------
(* Go library functions the code calls, computed as the library computes   *)
(* them.                                                                   *)

\* strings.HasPrefix
HasPrefix(s, prefix) ==
    /\ Len(s) >= Len(prefix)
    /\ SubSeq(s, 1, Len(prefix)) = prefix

\* strings.TrimPrefix
TrimPrefix(s, prefix) ==
    IF HasPrefix(s, prefix) THEN SubSeq(s, Len(prefix) + 1, Len(s)) ELSE s

RECURSIVE TrimLeft(_, _)
TrimLeft(s, cutset) ==
    IF s # <<>> /\ Head(s) \in cutset THEN TrimLeft(Tail(s), cutset) ELSE s

RECURSIVE TrimRight(_, _)
TrimRight(s, cutset) ==
    IF s # <<>> /\ s[Len(s)] \in cutset
    THEN TrimRight(SubSeq(s, 1, Len(s) - 1), cutset)
    ELSE s

\* strings.Trim: all leading and trailing characters of cutset removed
Trim(s, cutset) == TrimRight(TrimLeft(s, cutset), cutset)

\* unicode.IsSpace on the characters the model uses
WhiteSpace == {" ", "\t", "\n", "\r"}

\* strings.Fields: the maximal runs of non-space characters, in order
RECURSIVE FieldsFrom(_, _)
FieldsFrom(s, cur) ==
    IF s = <<>>
    THEN (IF cur = <<>> THEN <<>> ELSE <<cur>>)
    ELSE IF Head(s) \in WhiteSpace
         THEN (IF cur = <<>> THEN <<>> ELSE <<cur>>) \o FieldsFrom(Tail(s), <<>>)
         ELSE FieldsFrom(Tail(s), Append(cur, Head(s)))

Fields(s) == FieldsFrom(s, <<>>)

\* filepath.Clean on a path of components: "." dropped, ".." removes the
\* component before it
RECURSIVE CleanFrom(_, _)
CleanFrom(path, acc) ==
    IF path = <<>> THEN acc
    ELSE IF Head(path) = "." THEN CleanFrom(Tail(path), acc)
    ELSE IF Head(path) = ".." /\ acc # <<>> /\ acc[Len(acc)] # ".."
         THEN CleanFrom(Tail(path), SubSeq(acc, 1, Len(acc) - 1))
    ELSE CleanFrom(Tail(path), Append(acc, Head(path)))

Clean(path) == CleanFrom(path, <<>>)

\* filepath.Join
Join(dir, name) == Clean(Append(dir, name))

---------------------------------------------------------------------------
(* 64-bit integers as eight base-256 limbs, least significant first *)

Limbs == 1..8

Zero64 == [i \in Limbs |-> 0]

RECURSIVE LimbsOf(_, _)
LimbsOf(n, k) == IF k = 0 THEN <<>> ELSE <<n % 256>> \o LimbsOf(n \div 256, k - 1)

\* the uint64 holding a small natural number
U64(n) == LimbsOf(n, 8)

RECURSIVE ColumnSum(_, _, _, _)
ColumnSum(a, b, k, i) ==
    IF i > k THEN 0
    ELSE (IF i <= Len(a) /\ k + 1 - i <= Len(b) THEN a[i] * b[k + 1 - i] ELSE 0)
         + ColumnSum(a, b, k, i + 1)

RECURSIVE MulFrom(_, _, _, _, _)
MulFrom(a, b, k, carry, width) ==
    IF k > width THEN <<>>
    ELSE LET s == carry + ColumnSum(a, b, k, 1)
         IN  <<s % 256>> \o MulFrom(a, b, k + 1, s \div 256, width)

\* Go's a * b on int64/uint64: the low 64 bits of the product
Mul64(a, b) == MulFrom(a, b, 1, 0, 8)

IsZero64(x) == x = Zero64

---------------------------------------------------------------------------
(* Constants of httpclient.go *)

socketBaseURL == <<"h", "t", "t", "p", ":", "/", "/", "u", "n", "i", "x">>
unixSocketProtocol == <<"h", "t", "t", "p", "+", "u", "n", "i", "x", ":", "/", "/">>
\* httpProtocol written without its "://"
httpProtocolNoSlashes == <<"h", "t", "t", "p">>
httpProtocol == <<"h", "t", "t", "p", ":", "/", "/">>
httpsProtocol == <<"h", "t", "t", "p", "s", ":", "/", "/">>
defaultReadTimeoutSeconds == 300
\* time.Second, in nanoseconds
Second == 1000000000
defaultRetryWaitMinimum == U64(Second)
defaultRetryWaitMaximum == Mul64(U64(15), U64(Second))
defaultRetryMax == 2

(* Errors.  kind "nil" is the nil error; a "cafile not found" error is the *)
(* fmt.Errorf("... %w", ErrCafileNotFound) value carrying the path.        *)
NilErr == [kind |-> "nil", path |-> <<>>]
ErrCafileNotFound == "cafile not found"
CafileNotFoundErr(filename) == [kind |-> ErrCafileNotFound, path |-> filename]
StatErr(filename) == [kind |-> "stat: permission denied", path |-> filename]
UnknownPrefixErr == [kind |-> "unknown GitLab URL prefix", path |-> <<>>]
LoadKeyPairErr(certPath) == [kind |-> "tls: cannot load key pair", path |-> certPath]
SystemPoolErr == [kind |-> "x509: system root pool is not available", path |-> <<>>]

\* errors.Is(e, ErrCafileNotFound)
IsCafileNotFound(e) == e.kind = ErrCafileNotFound

---------------------------------------------------------------------------
(* The filesystem the calls read.  Every path not listed does not exist.   *)
(* stat: what os.Stat returns ("ok", "ENOENT", or another error "EACCES"); *)
(* read: whether os.ReadFile succeeds; pem: the file's PEM blocks, a block *)
(* being a parsable certificate ("cert"), a block of another type ("key")  *)
(* or bytes that decode to nothing ("junk").                               *)

CertBlock(id) == [type |-> "CERTIFICATE", cert |-> id]
KeyBlock == [type |-> "PRIVATE KEY", cert |-> "none"]
JunkBlock == [type |-> "junk", cert |-> "none"]

Files ==
    { [path |-> <<"ca", "valid.pem">>, stat |-> "ok", read |-> "ok",
       pem |-> <<CertBlock("ca1")>>],
      [path |-> <<"locked", "ca.pem">>, stat |-> "EACCES", read |-> "err",
       pem |-> <<>>],
      [path |-> <<"certs", "a.pem">>, stat |-> "ok", read |-> "ok",
       pem |-> <<CertBlock("ca4")>>],
      [path |-> <<"certs", "b.pem">>, stat |-> "ok", read |-> "ok",
       pem |-> <<JunkBlock>>],
      [path |-> <<"certs", "c.pem">>, stat |-> "ok", read |-> "err",
       pem |-> <<CertBlock("ca3")>>],
      [path |-> <<"certs", "d.pem">>, stat |-> "ok", read |-> "ok",
       pem |-> <<JunkBlock, CertBlock("ca2"), KeyBlock>>],
      [path |-> <<"tls", "client.crt">>, stat |-> "ok", read |-> "ok",
       pem |-> <<CertBlock("client")>>],
      [path |-> <<"tls", "client.key">>, stat |-> "ok", read |-> "ok",
       pem |-> <<KeyBlock>>],
      [path |-> <<"tls", "bad.key">>, stat |-> "ok", read |-> "ok",
       pem |-> <<JunkBlock>>] }

\* directories: the entries os.ReadDir returns, sorted by file name
Dirs ==
    { [path |-> <<"certs">>,
       entries |-> << [name |-> "a.pem", isDir |-> FALSE],
                      [name |-> "b.pem", isDir |-> FALSE],
                      [name |-> "c.pem", isDir |-> FALSE],
                      [name |-> "d.pem", isDir |-> FALSE],
                      [name |-> "sub", isDir |-> TRUE] >>],
      [path |-> <<"ca">>,
       entries |-> << [name |-> "valid.pem", isDir |-> FALSE] >>] }

\* the roots x509.SystemCertPool returns where it is available
SystemRoots == {"sysroot"}

IsFile(path) == \E f \in Files : f.path = Clean(path)
FileAt(path) == CHOOSE f \in Files : f.path = Clean(path)
IsDirectory(path) == \E d \in Dirs : d.path = Clean(path)

\* os.Stat: "ok", "ENOENT" (os.IsNotExist) or another error
Stat(path) ==
    IF IsFile(path) THEN FileAt(path).stat
    ELSE IF IsDirectory(path) THEN "ok"
    ELSE "ENOENT"

\* os.ReadFile: <<content>> on success, <<>> on an error
ReadFile(path) ==
    IF IsFile(path) /\ FileAt(path).stat = "ok" /\ FileAt(path).read = "ok"
    THEN <<FileAt(path).pem>>
    ELSE <<>>

\* os.ReadDir with its error dropped: the entries, none when the directory
\* cannot be opened
ReadDir(path) ==
    IF IsDirectory(path)
    THEN (CHOOSE d \in Dirs : d.path = Clean(path)).entries
    ELSE <<>>

\* CertPool.AppendCertsFromPEM: every block that is a parsable certificate
\* is added, every other block is passed over
AppendCertsFromPEM(pool, pem) ==
    pool \cup {pem[i].cert : i \in {j \in DOMAIN pem : pem[j].type = "CERTIFICATE"}}

\* tls.LoadX509KeyPair: <<certificate>> on success, <<>> on an error
LoadX509KeyPair(certPath, keyPath) ==
    IF /\ ReadFile(certPath) # <<>>
       /\ ReadFile(keyPath) # <<>>
       /\ \E i \in DOMAIN ReadFile(certPath)[1] : ReadFile(certPath)[1][i].type = "CERTIFICATE"
       /\ \E i \in DOMAIN ReadFile(keyPath)[1] : ReadFile(keyPath)[1][i].type = "PRIVATE KEY"
    THEN <<[certificate |-> certPath, privateKey |-> keyPath]>>
    ELSE <<>>

---------------------------------------------------------------------------
(* httpClientCfg and the options *)

HaveCertAndKey(cfg) == cfg.keyPath # <<>> /\ cfg.certPath # <<>>

\* the closure WithClientCert(certPath, keyPath) returns, applied to cfg
WithClientCert(certPath, keyPath, cfg) ==
    [cfg EXCEPT !.keyPath = keyPath, !.certPath = certPath]

\* WithHTTPRetryOpts with the two wait bounds exchanged
WithHTTPRetryOptsSwapped(waitMin, waitMax, maxAttempts, cfg) ==
    [cfg EXCEPT !.retryWaitMin = waitMax, !.retryWaitMax = waitMin,
                !.retryMax = maxAttempts]

\* the closure WithHTTPRetryOpts(waitMin, waitMax, maxAttempts) returns,
\* applied to cfg
WithHTTPRetryOpts(waitMin, waitMax, maxAttempts, cfg) ==
    [cfg EXCEPT !.retryWaitMin = waitMin, !.retryWaitMax = waitMax,
                !.retryMax = maxAttempts]

\* an HTTPClientOpt value: the function and the variables it captured
ClientCertOpt(certPath, keyPath) ==
    [fn |-> "WithClientCert", captured |-> <<certPath, keyPath>>]
RetryOpt(waitMin, waitMax, maxAttempts) ==
    [fn |-> "WithHTTPRetryOpts", captured |-> <<waitMin, waitMax, maxAttempts>>]

\* opt(hcc)
ApplyOpt(opt, cfg) ==
    IF opt.fn = "WithClientCert"
    THEN WithClientCert(opt.captured[1], opt.captured[2], cfg)
    ELSE WithHTTPRetryOpts(opt.captured[1], opt.captured[2], opt.captured[3], cfg)

\* for _, opt := range opts { opt(hcc) }
RECURSIVE ApplyOpts(_, _)
ApplyOpts(opts, cfg) ==
    IF opts = <<>> THEN cfg ELSE ApplyOpts(Tail(opts), ApplyOpt(Head(opts), cfg))

\* the configuration NewHTTPClientWithOpts resolves before it builds anything
ResolveCfg(caFile, caPath, opts) ==
    ApplyOpts(opts, [keyPath |-> <<>>, certPath |-> <<>>,
                     caFile |-> caFile, caPath |-> caPath,
                     retryWaitMin |-> defaultRetryWaitMinimum,
                     retryWaitMax |-> defaultRetryWaitMaximum,
                     retryMax |-> defaultRetryMax])

---------------------------------------------------------------------------
(* The transports.  A call in the trace is <<function, path argument>>. *)

Call(fn, path) == << <<fn, path>> >>

\* validateCaFile without the os.IsNotExist case
validateCaFileNoNotExist(filename) ==
    IF filename = <<>> THEN NilErr
    ELSE IF Stat(filename) = "ok" THEN NilErr
    ELSE StatErr(filename)

validateCaFile(filename) ==
    IF filename = <<>> THEN NilErr
    ELSE IF Stat(filename) = "ok" THEN NilErr
    ELSE IF Stat(filename) = "ENOENT" THEN CafileNotFoundErr(filename)
    ELSE StatErr(filename)

validateCaFileCalls(filename) ==
    Call("validateCaFile", filename)
    \o (IF filename = <<>> THEN <<>> ELSE Call("os.Stat", filename))

\* the closure installed as DialContext: what it passes to net.Dialer
SocketDial(socketPath, ctx, network, addr) ==
    [ctx |-> ctx, network |-> "unix", address |-> socketPath]

\* buildSocketTransport trimming one leading "/" only
buildSocketTransportTrimPrefix(gitlabURL, gitlabRelativeURLRoot) ==
    LET socketPath == TrimPrefix(gitlabURL, unixSocketProtocol)
        root == TrimPrefix(gitlabRelativeURLRoot, <<"/">>)
    IN  [transport |-> <<[DialContext |-> <<socketPath>>, TLSClientConfig |-> <<>>]>>,
         host |-> IF root # <<>> THEN socketBaseURL \o <<"/">> \o root
                  ELSE socketBaseURL]

buildSocketTransport(gitlabURL, gitlabRelativeURLRoot) ==
    LET socketPath == TrimPrefix(gitlabURL, unixSocketProtocol)
        root == Trim(gitlabRelativeURLRoot, {"/"})
    IN  [transport |-> <<[DialContext |-> <<socketPath>>, TLSClientConfig |-> <<>>]>>,
         host |-> IF root # <<>> THEN socketBaseURL \o <<"/">> \o root
                  ELSE socketBaseURL]

buildHTTPTransport(gitlabURL) ==
    [transport |-> <<[DialContext |-> <<>>, TLSClientConfig |-> <<>>]>>,
     host |-> gitlabURL]

addCertToPool(certPool, fileName) ==
    LET cert == ReadFile(Clean(fileName))
    IN  IF cert # <<>> THEN AppendCertsFromPEM(certPool, cert[1]) ELSE certPool

\* for _, fi := range fis: directories skipped, every other entry added
RECURSIVE addDirToPool(_, _, _)
addDirToPool(certPool, caPath, fis) ==
    IF fis = <<>> THEN certPool
    ELSE addDirToPool(IF Head(fis).isDir THEN certPool
                      ELSE addCertToPool(certPool, Join(caPath, Head(fis).name)),
                      caPath, Tail(fis))

RECURSIVE addDirToPoolCalls(_, _)
addDirToPoolCalls(caPath, fis) ==
    IF fis = <<>> THEN <<>>
    ELSE (IF Head(fis).isDir THEN <<>>
          ELSE Call("os.ReadFile", Join(caPath, Head(fis).name)))
         \o addDirToPoolCalls(caPath, Tail(fis))

\* the trust pool of buildHTTPSTransport
buildCertPool(cfg, sys) ==
    LET base == IF sys = "ok" THEN SystemRoots ELSE {}
        withFile == IF cfg.caFile # <<>> THEN addCertToPool(base, cfg.caFile) ELSE base
    IN  IF cfg.caPath # <<>>
        THEN addDirToPool(withFile, cfg.caPath, ReadDir(cfg.caPath))
        ELSE withFile

\* err as buildHTTPSTransport holds it when it reaches its last line: the
\* result of x509.SystemCertPool (the loadErr of the key pair is a variable
\* of its own)
buildHTTPSTransportErr(sys) == IF sys = "ok" THEN NilErr ELSE SystemPoolErr

buildHTTPSTransport(cfg, gitlabURL, sys) ==
    LET certPool == buildCertPool(cfg, sys)
        cert == LoadX509KeyPair(cfg.certPath, cfg.keyPath)
        config == [RootCAs |-> certPool, MinVersion |-> "VersionTLS12",
                   Certificates |-> IF HaveCertAndKey(cfg) THEN cert ELSE <<>>]
    IN  IF HaveCertAndKey(cfg) /\ cert = <<>>
        THEN [transport |-> <<>>, host |-> <<>>, err |-> LoadKeyPairErr(cfg.certPath)]
        ELSE [transport |-> <<[DialContext |-> <<>>, TLSClientConfig |-> <<config>>]>>,
              host |-> gitlabURL, err |-> buildHTTPSTransportErr(sys)]

buildHTTPSTransportCalls(cfg, sys) ==
    Call("buildHTTPSTransport", <<>>)
    \o Call("x509.SystemCertPool", <<>>)
    \o (IF sys = "ok" THEN <<>> ELSE Call("x509.NewCertPool", <<>>))
    \o (IF cfg.caFile # <<>> THEN Call("os.ReadFile", Clean(cfg.caFile)) ELSE <<>>)
    \o (IF cfg.caPath # <<>>
        THEN Call("os.ReadDir", cfg.caPath)
             \o addDirToPoolCalls(cfg.caPath, ReadDir(cfg.caPath))
        ELSE <<>>)
    \o (IF HaveCertAndKey(cfg) THEN Call("tls.LoadX509KeyPair", cfg.certPath) ELSE <<>>)

\* time.Duration(timeoutSeconds) * time.Second
readTimeout(timeoutSeconds) ==
    Mul64(IF IsZero64(timeoutSeconds) THEN U64(defaultReadTimeoutSeconds)
          ELSE timeoutSeconds,
          U64(Second))

---------------------------------------------------------------------------
(* NewHTTPClientWithOpts *)

\* the switch on the URL prefix: the transport, the host and the error it
\* leaves, with the calls it made
SelectTransport(cfg, gitlabURL, gitlabRelativeURLRoot, caFile, sys) ==
    IF HasPrefix(gitlabURL, unixSocketProtocol)
    THEN LET b == buildSocketTransport(gitlabURL, gitlabRelativeURLRoot)
         IN  [transport |-> b.transport, host |-> b.host, err |-> NilErr,
              calls |-> Call("buildSocketTransport", <<>>)]
    ELSE IF HasPrefix(gitlabURL, httpProtocol)
    THEN LET b == buildHTTPTransport(gitlabURL)
         IN  [transport |-> b.transport, host |-> b.host, err |-> NilErr,
              calls |-> Call("buildHTTPTransport", <<>>)]
    ELSE IF HasPrefix(gitlabURL, httpsProtocol)
    THEN IF validateCaFile(caFile) # NilErr
         THEN [transport |-> <<>>, host |-> <<>>, err |-> validateCaFile(caFile),
               calls |-> validateCaFileCalls(caFile)]
         ELSE LET b == buildHTTPSTransport(cfg, gitlabURL, sys)
              IN  [transport |-> b.transport, host |-> b.host, err |-> b.err,
                   calls |-> validateCaFileCalls(caFile)
                             \o buildHTTPSTransportCalls(cfg, sys)]
    ELSE [transport |-> <<>>, host |-> <<>>, err |-> UnknownPrefixErr,
          calls |-> <<>>]

\* the switch without the check of buildHTTPSTransport's error
ReturnsEarlyUncheckedBuild(selected) ==
    selected.err # NilErr /\ selected.err.kind # "tls: cannot load key pair"

\* whether the switch returned from NewHTTPClientWithOpts early
ReturnsEarly(selected) == selected.err # NilErr

\* NewTransport (transport.go): the built transport wrapped as the
\* underlying transport
NewTransport(transport) == [next |-> transport]

\* the retrying client and the HTTPClient around it
AssembleClient(cfg, selected, readTimeoutSeconds) ==
    [RetryableHTTP |->
        [RetryMax |-> cfg.retryMax,
         RetryWaitMax |-> cfg.retryWaitMax,
         RetryWaitMin |-> cfg.retryWaitMin,
         Logger |-> <<>>,
         HTTPClient |-> [Transport |-> NewTransport(selected.transport),
                         Timeout |-> readTimeout(readTimeoutSeconds)]],
     Host |-> selected.host]

---------------------------------------------------------------------------
(* Package sshenv *)

GitProtocolEnv == "GIT_PROTOCOL"
SSHConnectionEnv == "SSH_CONNECTION"
SSHOriginalCommandEnv == "SSH_ORIGINAL_COMMAND"

\* os.Getenv: the value, empty when the variable is not set
Getenv(env, name) == env[name]

\* the index expression s[i] of Go (i counted from 0): <<element>>, or <<>>
\* when i is out of range and the runtime panics
Index(s, i) == IF i + 1 \in DOMAIN s THEN <<s[i + 1]>> ELSE <<>>

\* <<address>>, or <<>> when it panics
remoteAddrFromEnv(env) ==
    LET address == Getenv(env, SSHConnectionEnv)
    IN  IF address # <<>> THEN Index(Fields(address), 0) ELSE << <<>> >>

\* the Env NewFromEnv returns, or the panic that ends it
NewFromEnvResult(env) ==
    LET isSSHConnection == Getenv(env, SSHConnectionEnv) # <<>>
        remoteAddr == remoteAddrFromEnv(env)
    IN  IF remoteAddr = <<>>
        THEN [outcome |-> "panic: index out of range [0] with length 0", env |-> <<>>]
        ELSE [outcome |-> "return",
              env |-> <<[GitProtocolVersion |-> Getenv(env, GitProtocolEnv),
                         IsSSHConnection |-> isSSHConnection,
                         RemoteAddr |-> remoteAddr[1],
                         OriginalCommand |-> Getenv(env, SSHOriginalCommandEnv),
                         NamespacePath |-> <<>>]>>]

---------------------------------------------------------------------------
(* The inputs *)

SSHConnections ==
    { <<>>,
      <<"1", ".", "2", " ", "5", " ", "3", ".", "4", " ", "2", "2">>,
      <<" ", "1", ".", "2", " ", "5">>,
      <<"1", ".", "2">>,
      <<"\t", "1", ".", "2", "\n">>,
      <<" ">>,
      <<" ", "\t", " ">> }

GitProtocols == { <<>>, <<"2">> }

OriginalCommands ==
    { <<>>, <<"g", "i", "t">>, <<" ">> }

Environments ==
    { [n \in {GitProtocolEnv, SSHConnectionEnv, SSHOriginalCommandEnv} |->
          IF n = SSHConnectionEnv THEN c ELSE IF n = GitProtocolEnv THEN g ELSE o] :
      c \in SSHConnections, g \in GitProtocols, o \in OriginalCommands }

URLs ==
    { <<"h", "t", "t", "p", "+", "u", "n", "i", "x", ":", "/", "/", "/", "r", "u", "n", "/", "s">>,
      <<"h", "t", "t", "p", ":", "/", "/", "h">>,
      <<"h", "t", "t", "p", "s", ":", "/", "/", "h">>,
      <<"f", "t", "p", ":", "/", "/", "h">>,
      <<"H", "T", "T", "P", ":", "/", "/", "h">>,
      <<>> }

RelativeURLRoots ==
    { <<>>, <<"/">>, <<"/", "/", "a", "/", "b", "/">> }

CaFiles ==
    { <<>>, <<"ca", ".", "valid.pem">>, <<"ca", "missing.pem">>, <<"locked", "ca.pem">> }

CaPaths == { <<>>, <<"certs">>, <<"nodir">> }

ReadTimeouts ==
    { U64(0), U64(10),
      <<5, 125, 193, 37, 2, 0, 0, 0>> }     \* 9223372037

Options ==
    { ClientCertOpt(<<"tls", "client.crt">>, <<"tls", "client.key">>),
      ClientCertOpt(<<"tls", "client.crt">>, <<"tls", "bad.key">>),
      ClientCertOpt(<<"tls", "client.crt">>, <<>>),
      RetryOpt(Mul64(U64(2), U64(Second)), Mul64(U64(20), U64(Second)), 5),
      RetryOpt(U64(0), U64(Second), 0) }

OptionLists == UNION { [1..n -> Options] : n \in 0..MaxOpts }

SystemPools == {"ok", "err"}

\* the context, network and address a request hands to DialContext
DialRequests == { <<"ctx1", "tcp", "unix:80">>, <<"ctx2", "udp", "h:443">> }

---------------------------------------------------------------------------
(* The state machine *)

Init ==
    /\ pc = "start"
    /\ args = <<>>
    /\ systemPool \in SystemPools
    /\ hcc = <<>>
    /\ client = <<>>
    /\ err = NilErr
    /\ trace = <<>>
    /\ dialed = <<>>
    /\ environ = <<>>
    /\ sshEnv = <<>>

NewHTTPClientWithOpts ==
    /\ pc = "start"
    /\ \E gitlabURL \in URLs, gitlabRelativeURLRoot \in RelativeURLRoots,
          caFile \in CaFiles, caPath \in CaPaths,
          readTimeoutSeconds \in ReadTimeouts, opts \in OptionLists :
          LET cfg == ResolveCfg(caFile, caPath, opts)
              selected == SelectTransport(cfg, gitlabURL, gitlabRelativeURLRoot,
                                          caFile, systemPool)
          IN  /\ args' = <<[gitlabURL |-> gitlabURL,
                            gitlabRelativeURLRoot |-> gitlabRelativeURLRoot,
                            caFile |-> caFile, caPath |-> caPath,
                            readTimeoutSeconds |-> readTimeoutSeconds,
                            opts |-> opts]>>
              /\ hcc' = <<cfg>>
              /\ IF ReturnsEarly(selected)
                 THEN /\ client' = <<>>
                      /\ err' = selected.err
                      /\ trace' = selected.calls
                 ELSE /\ client' = <<AssembleClient(cfg, selected, readTimeoutSeconds)>>
                      /\ err' = NilErr
                      /\ trace' = selected.calls \o Call("retryablehttp.NewClient", <<>>)
    /\ pc' = "client"
    /\ UNCHANGED <<systemPool, dialed, environ, sshEnv>>

\* a request of the constructed client's transport dials through the
\* DialContext buildSocketTransport installed
DialContext ==
    /\ pc = "client"
    /\ client # <<>>
    /\ client[1].RetryableHTTP.HTTPClient.Transport.next[1].DialContext # <<>>
    /\ \E req \in DialRequests :
          dialed' = <<[ctx |-> req[1], network |-> req[2], addr |-> req[3],
                       dial |-> SocketDial(
                           client[1].RetryableHTTP.HTTPClient.Transport.next[1].DialContext[1],
                           req[1], req[2], req[3])]>>
    /\ UNCHANGED <<pc, args, systemPool, hcc, client, err, trace, environ, sshEnv>>

NewFromEnv ==
    /\ pc = "start"
    /\ \E env \in Environments :
          /\ environ' = <<env>>
          /\ sshEnv' = <<NewFromEnvResult(env)>>
    /\ pc' = "env"
    /\ UNCHANGED <<args, systemPool, hcc, client, err, trace, dialed>>

\* The two packages share no state: a behaviour is one call of
\* NewHTTPClientWithOpts followed by requests through the client's transport,
\* or one call of NewFromEnv.
Next ==
    \/ NewHTTPClientWithOpts
    \/ DialContext
    \/ NewFromEnv

Spec == Init /\ [][Next]_vars

---------------------------------------------------------------------------
(* Vocabulary of the properties *)

Returned == pc = "client"
Arg == args[1]
Cfg == hcc[1]
Called(fn) == \E i \in DOMAIN trace : trace[i][1] = fn
TimesCalled(fn) == Cardinality({i \in DOMAIN trace : trace[i][1] = fn})
StartsWith(s, p) == Len(p) <= Len(s) /\ \A i \in 1..Len(p) : s[i] = p[i]
Transport == client[1].RetryableHTTP.HTTPClient.Transport.next

SocketURL == StartsWith(Arg.gitlabURL, <<"h", "t", "t", "p", "+", "u", "n", "i", "x", ":", "/", "/">>)
PlainURL == StartsWith(Arg.gitlabURL, <<"h", "t", "t", "p", ":", "/", "/">>)
TLSURL == StartsWith(Arg.gitlabURL, <<"h", "t", "t", "p", "s", ":", "/", "/">>)

\* the path names nothing on disk
Missing(path) ==
    /\ \A f \in Files : f.path # Clean(path)
    /\ \A d \in Dirs : d.path # Clean(path)

(* C1: the strategy is chosen by the literal URL prefix alone: socket       *)
(* exactly for "http+unix://", plain exactly for "http://", TLS exactly for *)
(* "https://"; any other URL gives the unknown-prefix error and no client;  *)
(* a plain or TLS client's Host is the URL unchanged.                       *)
C1_PrefixDispatch ==
    Returned =>
        /\ Called("buildSocketTransport") <=> SocketURL
        /\ Called("buildHTTPTransport") <=> PlainURL
        /\ Called("validateCaFile") <=> TLSURL
        /\ Called("buildHTTPSTransport") => TLSURL
        /\ ~(SocketURL \/ PlainURL \/ TLSURL) =>
              /\ err = UnknownPrefixErr
              /\ client = <<>>
              /\ trace = <<>>
        /\ (client # <<>> /\ (PlainURL \/ TLSURL)) => client[1].Host = Arg.gitlabURL

C1_Witness ==
    /\ Returned
    /\ Arg.gitlabURL = <<"H", "T", "T", "P", ":", "/", "/", "h">>
    /\ err = UnknownPrefixErr
    /\ client = <<>>

(* C2: for an "https://" URL and a non-empty caFile naming nothing on disk, *)
(* the call returns an error matching ErrCafileNotFound and no client, and  *)
(* has made no call but the os.Stat of validateCaFile: no pool, no file or  *)
(* directory read, no key pair load, whatever caPath, the system pool and   *)
(* the key pair are.                                                        *)
C2_MissingCaFile ==
    (Returned /\ TLSURL /\ Arg.caFile # <<>> /\ Missing(Arg.caFile)) =>
        /\ IsCafileNotFound(err)
        /\ err.path = Arg.caFile
        /\ client = <<>>
        /\ trace = << <<"validateCaFile", Arg.caFile>>, <<"os.Stat", Arg.caFile>> >>

C2_Witness ==
    /\ Returned
    /\ TLSURL
    /\ Arg.caFile = <<"ca", "missing.pem">>
    /\ Arg.caPath = <<"certs">>
    /\ systemPool = "err"
    /\ Cfg.certPath = <<"tls", "client.crt">>
    /\ Cfg.keyPath = <<"tls", "bad.key">>
    /\ IsCafileNotFound(err)
    /\ client = <<>>

\* t is r without its leading and its trailing "/" characters
IsTrimmed(t, r) ==
    /\ t = <<>> \/ (t[1] # "/" /\ t[Len(t)] # "/")
    /\ \E a \in 0..Len(r) :
          /\ a + Len(t) <= Len(r)
          /\ \A i \in 1..a : r[i] = "/"
          /\ \A i \in 1..Len(t) : r[a + i] = t[i]
          /\ \A i \in (a + Len(t) + 1)..Len(r) : r[i] = "/"

(* C3: for an "http+unix://" URL the call succeeds; the Host is             *)
(* "http://unix" when the relative root is empty once its leading and       *)
(* trailing "/" are removed and "http://unix/" followed by the trimmed root *)
(* otherwise; and whatever network and address a request passes, the        *)
(* dialer dials network "unix" at the URL without its prefix, with the      *)
(* request's context.                                                       *)
C3_SocketTransport ==
    (Returned /\ SocketURL) =>
        LET socketPath == SubSeq(Arg.gitlabURL, 13, Len(Arg.gitlabURL))
            base == <<"h", "t", "t", "p", ":", "/", "/", "u", "n", "i", "x">>
            host == client[1].Host
        IN  /\ err = NilErr
            /\ client # <<>>
            /\ Transport # <<>>
            /\ Transport[1].DialContext = <<socketPath>>
            /\ IF IsTrimmed(<<>>, Arg.gitlabRelativeURLRoot)
               THEN host = base
               ELSE /\ Len(host) > Len(base) + 1
                    /\ SubSeq(host, 1, Len(base) + 1) = base \o <<"/">>
                    /\ IsTrimmed(SubSeq(host, Len(base) + 2, Len(host)),
                                 Arg.gitlabRelativeURLRoot)
            /\ dialed # <<>> =>
                  dialed[1].dial = [ctx |-> dialed[1].ctx, network |-> "unix",
                                    address |-> socketPath]

C3_Witness ==
    /\ Returned
    /\ SocketURL
    /\ Arg.gitlabRelativeURLRoot = <<"/", "/", "a", "/", "b", "/">>
    /\ client # <<>>
    /\ client[1].Host = <<"h", "t", "t", "p", ":", "/", "/", "u", "n", "i", "x", "/", "a", "/", "b">>
    /\ dialed # <<>>
    /\ dialed[1].network = "udp"
    /\ dialed[1].addr = "h:443"
    /\ dialed[1].dial.address = <<"/", "r", "u", "n", "/", "s">>

\* the last option of opts made by fn: <<option>>, <<>> when there is none
LastOption(opts, fn) ==
    LET made == {i \in DOMAIN opts : opts[i].fn = fn}
    IN  IF made = {} THEN <<>>
        ELSE <<opts[CHOOSE i \in made : \A j \in made : j <= i]>>

(* C8: the resolved configuration is the fold of the options, in order,     *)
(* over the defaults 1s, 15s, 2 and no key pair: the retry fields are those *)
(* of the last WithHTTPRetryOpts or the defaults, certPath and keyPath      *)
(* those of the last WithClientCert or empty, caFile and caPath the         *)
(* arguments; an option applied twice is the option applied once; a         *)
(* returned client carries the resolved retry values.                       *)
C8_OptionsFold ==
    Returned =>
        LET retry == LastOption(Arg.opts, "WithHTTPRetryOpts")
            cert == LastOption(Arg.opts, "WithClientCert")
        IN  /\ Cfg.retryWaitMin = IF retry = <<>> THEN <<0, 202, 154, 59, 0, 0, 0, 0>>
                                  ELSE retry[1].captured[1]
            /\ Cfg.retryWaitMax = IF retry = <<>> THEN <<0, 214, 17, 126, 3, 0, 0, 0>>
                                  ELSE retry[1].captured[2]
            /\ Cfg.retryMax = IF retry = <<>> THEN 2 ELSE retry[1].captured[3]
            /\ Cfg.certPath = IF cert = <<>> THEN <<>> ELSE cert[1].captured[1]
            /\ Cfg.keyPath = IF cert = <<>> THEN <<>> ELSE cert[1].captured[2]
            /\ Cfg.caFile = Arg.caFile
            /\ Cfg.caPath = Arg.caPath
            /\ \A o \in Options : ApplyOpt(o, ApplyOpt(o, Cfg)) = ApplyOpt(o, Cfg)
            /\ client # <<>> =>
                  /\ client[1].RetryableHTTP.RetryMax = Cfg.retryMax
                  /\ client[1].RetryableHTTP.RetryWaitMin = Cfg.retryWaitMin
                  /\ client[1].RetryableHTTP.RetryWaitMax = Cfg.retryWaitMax

C8_Witness ==
    /\ Returned
    /\ Len(Arg.opts) = 2
    /\ Arg.opts[1].fn = "WithHTTPRetryOpts"
    /\ Arg.opts[2].fn = "WithHTTPRetryOpts"
    /\ Arg.opts[1] # Arg.opts[2]
    /\ client # <<>>
    /\ client[1].RetryableHTTP.RetryMax = 5
    /\ client[1].RetryableHTTP.RetryWaitMin = <<0, 148, 53, 119, 0, 0, 0, 0>>
    /\ client[1].RetryableHTTP.RetryWaitMax = <<0, 200, 23, 168, 4, 0, 0, 0>>

(* C9: the call returns exactly one of a client and an error.  With an      *)
(* error no retrying client was created; a returned client has its          *)
(* transport, retry bounds, attempt ceiling, timeout and Host; every step   *)
(* of the pipeline ran at most once, the client being created last; and     *)
(* before the call returns no client and no error is visible.               *)
C9_Atomic ==
    /\ pc = "start" => (client = <<>> /\ err = NilErr /\ trace = <<>>)
    /\ Returned =>
        /\ (client = <<>>) # (err = NilErr)
        /\ err # NilErr => ~Called("retryablehttp.NewClient")
        /\ client # <<>> =>
              /\ Transport # <<>>
              /\ client[1].RetryableHTTP.RetryMax = Cfg.retryMax
              /\ client[1].RetryableHTTP.RetryWaitMin = Cfg.retryWaitMin
              /\ client[1].RetryableHTTP.RetryWaitMax = Cfg.retryWaitMax
              /\ client[1].RetryableHTTP.HTTPClient.Timeout
                    = readTimeout(Arg.readTimeoutSeconds)
              /\ client[1].Host # <<>>
              /\ trace[Len(trace)][1] = "retryablehttp.NewClient"
        /\ \A fn \in {"buildSocketTransport", "buildHTTPTransport", "validateCaFile",
                      "buildHTTPSTransport", "x509.SystemCertPool", "os.ReadDir",
                      "tls.LoadX509KeyPair", "retryablehttp.NewClient"} :
              TimesCalled(fn) <= 1
        /\ TimesCalled("buildSocketTransport") + TimesCalled("buildHTTPTransport")
              + TimesCalled("validateCaFile") <= 1

C9_Witness ==
    /\ Returned
    /\ TLSURL
    /\ Called("tls.LoadX509KeyPair")
    /\ err.kind = "tls: cannot load key pair"
    /\ client = <<>>
    /\ ~Called("retryablehttp.NewClient")

---------------------------------------------------------------------------
(* Properties the code does not have *)

\* the call entered buildHTTPSTransport: an "https://" URL whose CA file
\* passed validateCaFile
BuiltTLS == Returned /\ TLSURL /\ Called("buildHTTPSTransport")

BothPaths == Cfg.certPath # <<>> /\ Cfg.keyPath # <<>>

\* the one key pair on disk that loads
PairLoads ==
    /\ Cfg.certPath = <<"tls", "client.crt">>
    /\ Cfg.keyPath = <<"tls", "client.key">>

RootCAs == Transport[1].TLSClientConfig[1].RootCAs
Certificates == Transport[1].TLSClientConfig[1].Certificates

\* what caFile and the files directly inside caPath hold
TrustMaterial ==
    { c \in {"ca1", "ca2", "ca3", "ca4", "client"} :
        \E f \in Files :
            /\ f.stat = "ok" /\ f.read = "ok"
            /\ \E i \in DOMAIN f.pem : f.pem[i] = [type |-> "CERTIFICATE", cert |-> c]
            /\ \/ Arg.caFile # <<>> /\ f.path = Clean(Arg.caFile)
               \/ /\ Arg.caPath # <<>>
                  /\ Len(f.path) = Len(Arg.caPath) + 1
                  /\ SubSeq(f.path, 1, Len(Arg.caPath)) = Arg.caPath }

(* C4: for an "https://" URL past the CA-file check: with both paths set    *)
(* and a pair that loads the client is returned with exactly that           *)
(* certificate; with both set and a pair that does not load the call fails  *)
(* with the load error and no client; with one or neither set no key pair   *)
(* is read, no certificate is attached and the call does not fail.          *)
C4_ClientCertificate ==
    BuiltTLS =>
        /\ (BothPaths /\ PairLoads) =>
              /\ client # <<>>
              /\ Certificates = <<[certificate |-> Cfg.certPath,
                                   privateKey |-> Cfg.keyPath]>>
        /\ (BothPaths /\ ~PairLoads) =>
              /\ err = [kind |-> "tls: cannot load key pair", path |-> Cfg.certPath]
              /\ client = <<>>
        /\ ~BothPaths =>
              /\ ~Called("tls.LoadX509KeyPair")
              /\ err = NilErr
              /\ client # <<>>
              /\ Certificates = <<>>

(* C5: for an "https://" URL past the CA-file check whose key pair is       *)
(* absent or loads, an unavailable system pool is not an error: the pool    *)
(* starts empty and the call returns a client and no error.                 *)
C5_SystemPoolFallback ==
    (BuiltTLS /\ (BothPaths => PairLoads) /\ systemPool = "err") =>
        /\ Called("x509.NewCertPool")
        /\ err = NilErr
        /\ client # <<>>
        /\ RootCAs = TrustMaterial

(* C6: for an "https://" URL the trust pool is assembled best-effort and    *)
(* the call succeeds: the pool is the base pool with exactly the            *)
(* certificates of the readable, well-formed content of caFile and of the   *)
(* non-directory entries directly inside caPath.                            *)
C6_BestEffortTrustPool ==
    (BuiltTLS /\ (BothPaths => PairLoads)) =>
        /\ err = NilErr
        /\ client # <<>>
        /\ RootCAs = (IF systemPool = "ok" THEN {"sysroot"} ELSE {}) \cup TrustMaterial

\* the product as a mathematical integer (a uint64 times a uint64 fits 16 limbs)
MulExact(a, b) == MulFrom(a, b, 1, 0, 16)

\* an int64 read as a two's complement number
IsNegative64(x) == x[8] >= 128
IsPositive64(x) == ~IsNegative64(x) /\ ~IsZero64(x)

\* the non-negative int64 x as a 16-limb mathematical integer
Widen(x) == x \o Zero64

(* C7: a returned client's timeout is the read timeout in seconds, 300 when *)
(* it is 0: a strictly positive duration of that many seconds in            *)
(* nanoseconds, for every unsigned 64-bit count of seconds.                 *)
C7_ReadTimeout ==
    (Returned /\ client # <<>>) =>
        LET seconds == IF Arg.readTimeoutSeconds = <<0, 0, 0, 0, 0, 0, 0, 0>>
                       THEN <<44, 1, 0, 0, 0, 0, 0, 0>>
                       ELSE Arg.readTimeoutSeconds
            timeout == client[1].RetryableHTTP.HTTPClient.Timeout
        IN  /\ IsPositive64(timeout)
            /\ Widen(timeout) = MulExact(seconds, <<0, 202, 154, 59, 0, 0, 0, 0>>)

(* C10: NewFromEnv returns for every value of SSH_CONNECTION;               *)
(* IsSSHConnection is true exactly when the value is not empty; RemoteAddr  *)
(* is empty for an empty value and otherwise the first field of the value.  *)
C10_NewFromEnvReturns ==
    pc = "env" =>
        LET address == environ[1]["SSH_CONNECTION"]
        IN  /\ sshEnv[1].outcome = "return"
            /\ sshEnv[1].env[1].IsSSHConnection = (address # <<>>)
            /\ address = <<>> => sshEnv[1].env[1].RemoteAddr = <<>>
            /\ (address # <<>> /\ Fields(address) # <<>>) =>
                  sshEnv[1].env[1].RemoteAddr = Fields(address)[1]

=============================================================================
